---- MODULE Spec2Model ----
(***************************************************************************)
(* Model of src/ethereum_test_fixtures/collector.py: the naming functions  *)
(* of TestInfo, and the FixtureCollector with its add / dump / verify      *)
(* operations.                                                             *)
(*                                                                         *)
(* A Python str is a sequence of one-character strings, a pathlib.Path is  *)
(* a sequence of components (each a str), a dict is a sequence of          *)
(* [k, v] records in insertion order.                                      *)
(***************************************************************************)
EXTENDS Integers, Sequences, FiniteSets, TLC

VARIABLES
    flat_output,              \* FixtureCollector.flat_output
    single_fixture_per_file,  \* FixtureCollector.single_fixture_per_file
    output_dir,               \* FixtureCollector.output_dir
    filler_path,              \* FixtureCollector.filler_path
    base_dump_dir,            \* FixtureCollector.base_dump_dir (None or a Path)
    all_fixtures,             \* FixtureCollector.all_fixtures
    json_path_to_test_item,   \* FixtureCollector.json_path_to_test_item
    calls,                    \* the add_fixture calls made so far, with their outcome
    op,                       \* the operation that ran last
    written,                  \* files written by the latest dump_fixtures call
    stdout,                   \* documents the latest dump_fixtures call put on sys.stdout
    error,                    \* the exception the latest operation ended with, or None
    consumed,                 \* consume_fixture invocations of the latest verify call
    consumer,                 \* the fixture classes its consumer can consume
    pc,                       \* per thread: the line of add_fixture it is at
    local,                    \* per thread: the locals of its add_fixture call
    pure_in,                  \* input of the pure naming functions
    pure_out                  \* their results

vars == <<flat_output, single_fixture_per_file, output_dir, filler_path,
          base_dump_dir, all_fixtures, json_path_to_test_item, calls, op,
          written, stdout, error, consumed, consumer, pc, local, pure_in, pure_out>>

config == <<flat_output, single_fixture_per_file, output_dir, filler_path,
            base_dump_dir>>

\* Python's None where a Path is optional: a Path here is never empty
None == <<>>

NoError == "None"

(***************************************************************************)
(* str                                                                     *)
(***************************************************************************)
StartsWith(s, p) ==
    /\ Len(s) >= Len(p)
    /\ SubSeq(s, 1, Len(p)) = p

\* s.replace(c, "") and the character-wise part of re.sub
RECURSIVE MapChars(_, _, _)
MapChars(s, from, to) ==
    IF s = <<>> THEN <<>>
    ELSE (IF Head(s) \in from THEN to ELSE <<Head(s)>>)
         \o MapChars(Tail(s), from, to)

\* s.split(sep) for a one-character sep: the list of the pieces
RECURSIVE SplitAcc(_, _, _)
SplitAcc(s, sep, cur) ==
    IF s = <<>> THEN <<cur>>
    ELSE IF Head(s) = sep THEN <<cur>> \o SplitAcc(Tail(s), sep, <<>>)
    ELSE SplitAcc(Tail(s), sep, Append(cur, Head(s)))

Split(s, sep) == SplitAcc(s, sep, <<>>)

\* s.rfind(c), 1-based; 0 when c does not occur
RFind(s, c) ==
    LET hits == {i \in DOMAIN s : s[i] = c}
    IN  IF hits = {} THEN 0 ELSE CHOOSE i \in hits : \A j \in hits : j <= i

RECURSIVE JoinWith(_, _)
JoinWith(parts, sep) ==
    IF parts = <<>> THEN <<>>
    ELSE IF Len(parts) = 1 THEN parts[1]
    ELSE parts[1] \o sep \o JoinWith(Tail(parts), sep)

(***************************************************************************)
(* pathlib.Path                                                            *)
(***************************************************************************)
PathName(p) == IF p = <<>> THEN <<>> ELSE p[Len(p)]

PathParent(p) == IF p = <<>> THEN <<>> ELSE SubSeq(p, 1, Len(p) - 1)

\* PurePath.suffix of a file name: from the last dot, unless that dot leads or
\* ends the name
NameSuffix(name) ==
    LET i == RFind(name, ".")
    IN  IF 1 < i /\ i < Len(name) THEN SubSeq(name, i, Len(name)) ELSE <<>>

NameStem(name) == SubSeq(name, 1, Len(name) - Len(NameSuffix(name)))

PathStem(p) == NameStem(PathName(p))

\* PurePath.with_suffix(ext): the last component's suffix replaced by ext
PathWithSuffix(p, ext) == Append(PathParent(p), NameStem(PathName(p)) \o ext)

\* os.path.commonpath of two absolute paths
RECURSIVE CommonPath(_, _)
CommonPath(p, q) ==
    IF p = <<>> \/ q = <<>> \/ Head(p) # Head(q) THEN <<>>
    ELSE <<Head(p)>> \o CommonPath(Tail(p), Tail(q))

\* PurePath.relative_to(base), base a prefix of p
RelativeTo(p, base) == SubSeq(p, Len(base) + 1, Len(p))

\* str(path).replace(os.sep, "__") of a relative path
FlattenPath(p) == JoinWith(p, <<"_", "_">>)

(***************************************************************************)
(* Results of calls that can raise                                         *)
(***************************************************************************)
Ok(v) == [ok |-> TRUE, val |-> v]

Raise(e) == [ok |-> FALSE, val |-> e]

(***************************************************************************)
(* collector.py: module functions and TestInfo                             *)
(***************************************************************************)
test_prefix == <<"t", "e", "s", "t", "_">>

\* faulty variant: every leading prefix removed, as name.replace would at the front
RECURSIVE strip_test_prefix_all(_)
strip_test_prefix_all(name) ==
    IF StartsWith(name, test_prefix)
    THEN strip_test_prefix_all(SubSeq(name, Len(test_prefix) + 1, Len(name)))
    ELSE name

strip_test_prefix(name) ==
    IF StartsWith(name, test_prefix)
    THEN SubSeq(name, Len(test_prefix) + 1, Len(name))
    ELSE name

\* faulty variant: the module's file stem without its directory
get_module_relative_output_dir_stem_only(test_module, filler) ==
    LET basename == PathWithSuffix(test_module, <<>>)
        basename_relative == RelativeTo(basename, CommonPath(filler, basename))
    IN  <<PathStem(basename_relative)>>

get_module_relative_output_dir(test_module, filler) ==
    LET basename == PathWithSuffix(test_module, <<>>)
        basename_relative == RelativeTo(basename, CommonPath(filler, basename))
    IN  Append(PathParent(basename_relative), PathStem(basename_relative))

\* faulty variant: a name without a bracket is taken as a name with no parameters
get_name_and_parameters_lenient(info) ==
    LET parts == Split(info.name, "[")
    IN  IF Len(parts) = 1 THEN Ok(<<parts[1], <<>>>>)
        ELSE IF Len(parts) # 2 THEN Raise("ValueError")
        ELSE Ok(<<parts[1],
                  MapChars(MapChars(parts[2], {"[", "-"}, <<"_">>), {"]"}, <<>>)>>)

\* name.split("[") unpacked into two names raises ValueError unless the split
\* gives exactly two pieces
get_name_and_parameters(info) ==
    LET parts == Split(info.name, "[")
    IN  IF Len(parts) # 2 THEN Raise("ValueError")
        ELSE Ok(<<parts[1],
                  MapChars(MapChars(parts[2], {"[", "-"}, <<"_">>), {"]"}, <<>>)>>)

get_single_test_name(info) ==
    LET np == get_name_and_parameters(info)
    IN  IF ~np.ok THEN np
        ELSE Ok(np.val[1] \o <<"_", "_">> \o np.val[2])

\* faulty variant: the parameters are appended at every level below the module
get_dump_dir_path_with_parameters(info, base, filler, level) ==
    IF base = None THEN Ok(None)
    ELSE LET rel == get_module_relative_output_dir(info.path, filler)
         IN  IF level = "test_module" THEN Ok(Append(base, FlattenPath(rel)))
             ELSE LET np == get_name_and_parameters(info)
                  IN  IF ~np.ok THEN np
                      ELSE LET flat_path == FlattenPath(rel) \o <<"_", "_">> \o np.val[1]
                           IN  IF level \in {"test_function", "test_parameter"}
                               THEN Ok(Append(Append(base, flat_path), np.val[2]))
                               ELSE Raise("Exception")

get_dump_dir_path(info, base, filler, level) ==
    IF base = None THEN Ok(None)
    ELSE LET rel == get_module_relative_output_dir(info.path, filler)
         IN  IF level = "test_module" THEN Ok(Append(base, FlattenPath(rel)))
             ELSE LET np == get_name_and_parameters(info)
                  IN  IF ~np.ok THEN np
                      ELSE LET flat_path == FlattenPath(rel) \o <<"_", "_">> \o np.val[1]
                           IN  IF level = "test_function"
                               THEN Ok(Append(base, flat_path))
                               ELSE IF level = "test_parameter"
                               THEN Ok(Append(Append(base, flat_path), np.val[2]))
                               ELSE Raise("Exception")

(***************************************************************************)
(* dict                                                                    *)
(***************************************************************************)
DictKeys(d) == {d[i].k : i \in DOMAIN d}

DictHas(d, k) == k \in DictKeys(d)

DictGet(d, k) == d[CHOOSE i \in DOMAIN d : d[i].k = k].v

\* d[k] = v: a present key keeps its place, a new key goes last
DictSet(d, k, v) ==
    IF DictHas(d, k)
    THEN [i \in DOMAIN d |-> IF d[i].k = k THEN [k |-> k, v |-> v] ELSE d[i]]
    ELSE Append(d, [k |-> k, v |-> v])

RECURSIVE DictUpdate(_, _)
DictUpdate(d, items) ==
    IF items = <<>> THEN d
    ELSE DictUpdate(DictSet(d, Head(items).k, Head(items).v), Tail(items))

(***************************************************************************)
(* Fixture classes (BaseFixture and its subclasses are defined outside     *)
(* collector.py): a class gives an output directory name and a file        *)
(* extension.  FixtureA2 is a subclass of FixtureA that inherits both.     *)
(***************************************************************************)
FixtureClasses == {"FixtureA", "FixtureA2", "FixtureB"}

output_base_dir_name(cls) ==
    IF cls = "FixtureB" THEN <<"B">> ELSE <<"A">>

output_file_extension(cls) == <<".", "j", "s", "o", "n">>

(***************************************************************************)
(* FixtureCollector                                                        *)
(***************************************************************************)
\* faulty variant: the single test name is used whatever single_fixture_per_file says
get_fixture_basename_per_parameter(flat, single, filler, info) ==
    LET n == get_single_test_name(info)
        dir == IF flat THEN <<>>
               ELSE get_module_relative_output_dir(
                        Append(PathParent(info.path),
                               strip_test_prefix(PathStem(info.path))), filler)
    IN  IF ~n.ok THEN n ELSE Ok(Append(dir, strip_test_prefix(n.val)))

get_fixture_basename(flat, single, filler, info) ==
    IF flat
    THEN IF single
         THEN LET n == get_single_test_name(info)
              IN  IF ~n.ok THEN n ELSE Ok(<<strip_test_prefix(n.val)>>)
         ELSE Ok(<<strip_test_prefix(info.original_name)>>)
    ELSE LET relative_fixture_output_dir ==
                 Append(PathParent(info.path), strip_test_prefix(PathStem(info.path)))
             module_relative_output_dir ==
                 get_module_relative_output_dir(relative_fixture_output_dir, filler)
         IN  IF single
             THEN LET n == get_single_test_name(info)
                  IN  IF ~n.ok THEN n
                      ELSE Ok(Append(module_relative_output_dir, strip_test_prefix(n.val)))
             ELSE Ok(Append(module_relative_output_dir,
                            strip_test_prefix(info.original_name)))

\* faulty variant: the class's subdirectory is left out of the path
fixture_path_of_no_subdir(out, fixture, basename) ==
    out \o PathWithSuffix(basename, output_file_extension(fixture.cls))

\* lines 129-133: the output path of a fixture with the given basename
fixture_path_of(out, fixture, basename) ==
    out \o <<output_base_dir_name(fixture.cls)>>
        \o PathWithSuffix(basename, output_file_extension(fixture.cls))

\* faulty variant: the TestInfo of a path is recorded on every call
add_fixture_record_last(flat, single, out, filler, fx, items, info, fixture) ==
    LET b == get_fixture_basename(flat, single, filler, info)
    IN  IF ~b.ok
        THEN [ok |-> FALSE, val |-> b.val, all_fixtures |-> fx, items |-> items]
        ELSE LET path == fixture_path_of(out, fixture, b.val)
                 new == ~DictHas(fx, path)
                 fx1 == IF new THEN DictSet(fx, path, <<>>) ELSE fx
                 items1 == DictSet(items, path, info)
                 fx2 == DictSet(fx1, path, DictSet(DictGet(fx1, path), info.id, fixture))
             IN  [ok |-> TRUE, val |-> path, all_fixtures |-> fx2, items |-> items1]

\* faulty variant: an id already in the group keeps its fixture (setdefault)
add_fixture_keep_first(flat, single, out, filler, fx, items, info, fixture) ==
    LET b == get_fixture_basename(flat, single, filler, info)
    IN  IF ~b.ok
        THEN [ok |-> FALSE, val |-> b.val, all_fixtures |-> fx, items |-> items]
        ELSE LET path == fixture_path_of(out, fixture, b.val)
                 new == ~DictHas(fx, path)
                 fx1 == IF new THEN DictSet(fx, path, <<>>) ELSE fx
                 items1 == IF new THEN DictSet(items, path, info) ELSE items
                 group == DictGet(fx1, path)
                 fx2 == IF DictHas(group, info.id)
                        THEN fx1
                        ELSE DictSet(fx1, path, DictSet(group, info.id, fixture))
             IN  [ok |-> TRUE, val |-> path, all_fixtures |-> fx2, items |-> items1]

\* faulty variant: every call replaces the group by one holding its fixture only
add_fixture_fresh_group(flat, single, out, filler, fx, items, info, fixture) ==
    LET b == get_fixture_basename(flat, single, filler, info)
    IN  IF ~b.ok
        THEN [ok |-> FALSE, val |-> b.val, all_fixtures |-> fx, items |-> items]
        ELSE LET path == fixture_path_of(out, fixture, b.val)
                 new == ~DictHas(fx, path)
                 items1 == IF new THEN DictSet(items, path, info) ELSE items
                 fx2 == DictSet(fx, path, <<[k |-> info.id, v |-> fixture]>>)
             IN  [ok |-> TRUE, val |-> path, all_fixtures |-> fx2, items |-> items1]

\* faulty variant: the group is created on every call, without the membership test
add_fixture_regroup(flat, single, out, filler, fx, items, info, fixture) ==
    LET b == get_fixture_basename(flat, single, filler, info)
    IN  IF ~b.ok
        THEN [ok |-> FALSE, val |-> b.val, all_fixtures |-> fx, items |-> items]
        ELSE LET path == fixture_path_of(out, fixture, b.val)
                 fx1 == DictSet(fx, path, <<>>)
                 items1 == DictSet(items, path, info)
                 fx2 == DictSet(fx1, path, DictSet(DictGet(fx1, path), info.id, fixture))
             IN  [ok |-> TRUE, val |-> path, all_fixtures |-> fx2, items |-> items1]

\* The whole of add_fixture on the maps (fx, items): the exception, or the
\* returned path and the maps afterwards.
add_fixture(flat, single, out, filler, fx, items, info, fixture) ==
    LET b == get_fixture_basename(flat, single, filler, info)
    IN  IF ~b.ok
        THEN [ok |-> FALSE, val |-> b.val, all_fixtures |-> fx, items |-> items]
        ELSE LET path == fixture_path_of(out, fixture, b.val)
                 new == ~DictHas(fx, path)
                 fx1 == IF new THEN DictSet(fx, path, <<>>) ELSE fx
                 items1 == IF new THEN DictSet(items, path, info) ELSE items
                 fx2 == DictSet(fx1, path, DictSet(DictGet(fx1, path), info.id, fixture))
             IN  [ok |-> TRUE, val |-> path, all_fixtures |-> fx2, items |-> items1]

\* faulty variant: one document per group
dump_to_stdout_per_group(fx) == [i \in DOMAIN fx |-> fx[i].v]

\* lines 145-149: every fixture of every group in one dict, written once
dump_to_stdout(fx) ==
    LET RECURSIVE Combine(_, _)
        Combine(groups, acc) ==
            IF groups = <<>> THEN acc
            ELSE Combine(Tail(groups), DictUpdate(acc, Head(groups).v))
    IN  <<Combine(fx, <<>>)>>

GroupClasses(group) == {group[i].v.cls : i \in DOMAIN group}

\* lines 150-155: the directories made, the files written and how the loop ended
RECURSIVE dump_to_files(_, _)
dump_to_files(groups, acc) ==
    IF groups = <<>> THEN acc
    ELSE LET path == Head(groups).k
             fixtures == Head(groups).v
             made == [acc EXCEPT !.dirs = @ \cup {PathParent(path)}]
         IN  IF Cardinality(GroupClasses(fixtures)) # 1
             THEN [made EXCEPT !.error = "TypeError"]
             ELSE dump_to_files(Tail(groups),
                                [made EXCEPT !.files = DictSet(@, path, fixtures)])

\* faulty variant: the file is written before the types are compared
RECURSIVE dump_to_files_write_first(_, _)
dump_to_files_write_first(groups, acc) ==
    IF groups = <<>> THEN acc
    ELSE LET path == Head(groups).k
             fixtures == Head(groups).v
             made == [acc EXCEPT !.dirs = @ \cup {PathParent(path)},
                                 !.files = DictSet(@, path, fixtures)]
         IN  IF Cardinality(GroupClasses(fixtures)) # 1
             THEN [made EXCEPT !.error = "TypeError"]
             ELSE dump_to_files_write_first(Tail(groups), made)

dump_fixtures_write_first(out, fx) ==
    IF PathName(out) = <<"s", "t", "d", "o", "u", "t">>
    THEN [stdout |-> dump_to_stdout(fx), dirs |-> {}, files |-> <<>>,
          error |-> NoError]
    ELSE [stdout |-> <<>>] @@
         dump_to_files_write_first(fx, [dirs |-> {out}, files |-> <<>>,
                                        error |-> NoError])

dump_fixtures(out, fx) ==
    IF PathName(out) = <<"s", "t", "d", "o", "u", "t">>
    THEN [stdout |-> dump_to_stdout(fx), dirs |-> {}, files |-> <<>>,
          error |-> NoError]
    ELSE [stdout |-> <<>>] @@
         dump_to_files(fx, [dirs |-> {out}, files |-> <<>>, error |-> NoError])

\* faulty variant: the two granularities are exchanged
_get_consume_direct_dump_dir_swapped(single, base, filler, info) ==
    IF base = None THEN Ok(None)
    ELSE IF single
    THEN get_dump_dir_path(info, base, filler, "test_function")
    ELSE get_dump_dir_path(info, base, filler, "test_parameter")

_get_consume_direct_dump_dir(single, base, filler, info) ==
    IF base = None THEN Ok(None)
    ELSE IF single
    THEN get_dump_dir_path(info, base, filler, "test_parameter")
    ELSE get_dump_dir_path(info, base, filler, "test_function")

\* lines 159-169 flattened: the (path, fixture) pairs in iteration order
RECURSIVE FixtureItems(_)
FixtureItems(groups) ==
    IF groups = <<>> THEN <<>>
    ELSE [i \in DOMAIN Head(groups).v |->
             [path |-> Head(groups).k, fixture |-> Head(groups).v[i].v]]
         \o FixtureItems(Tail(groups))

RECURSIVE verify_items(_, _, _, _, _, _, _)
verify_items(single, base, filler, items, can_consume, todo, acc) ==
    IF todo = <<>> THEN acc
    ELSE IF Head(todo).fixture.cls \notin can_consume
    THEN verify_items(single, base, filler, items, can_consume, Tail(todo), acc)
    ELSE LET info == DictGet(items, Head(todo).path)
             dir == _get_consume_direct_dump_dir(single, base, filler, info)
         IN  IF ~dir.ok THEN [acc EXCEPT !.error = dir.val]
             ELSE verify_items(single, base, filler, items, can_consume, Tail(todo),
                      [acc EXCEPT !.consumed = Append(@,
                          [cls |-> Head(todo).fixture.cls,
                           fixture_path |-> Head(todo).path,
                           fixture_name |-> None,
                           debug_output_path |-> dir.val])])

\* faulty variant: the consumer is invoked for the first fixture of a file only
verify_fixture_files_first_only(single, base, filler, fx, items, can_consume) ==
    verify_items(single, base, filler, items, can_consume,
                 [i \in DOMAIN fx |-> [path |-> fx[i].k, fixture |-> fx[i].v[1].v]],
                 [consumed |-> <<>>, error |-> NoError])

verify_fixture_files(single, base, filler, fx, items, can_consume) ==
    verify_items(single, base, filler, items, can_consume, FixtureItems(fx),
                 [consumed |-> <<>>, error |-> NoError])

(***************************************************************************)
(* Inputs                                                                  *)
(***************************************************************************)
MaxAdds == 2

Root == <<"/">>

Tests == <<"t", "e", "s", "t", "s">>

FillerPath == <<Root, Tests>>

test_push0 == <<"t", "e", "s", "t", "_", "p", "u", "s", "h", "0">>

test_push0_py == test_push0 \o <<".", "p", "y">>

PushModule ==
    <<Root, Tests, <<"s", "h", "a", "n", "g", "h", "a", "i">>,
      <<"e", "i", "p", "3", "8", "5", "5", "_", "p", "u", "s", "h", "0">>,
      test_push0_py>>

ParisModule == <<Root, Tests, <<"p", "a", "r", "i", "s">>, test_push0_py>>

ModulePaths == {PushModule, ParisModule}

\* the bracketed parameter suffix of Item.name; <<>> is a name without one
ParamSuffixes ==
    {<<>>, <<"[", "a", "-", "b", "]">>, <<"[", "a", "_", "b", "]">>, <<"[", "b", "]">>}

\* a pytest item: nodeid is the module path with the item's name
MkInfo(path, fn, suffix) ==
    [name |-> fn \o suffix, id |-> <<path, fn \o suffix>>,
     original_name |-> fn, path |-> path]

\* every parameterization of test_push0 in the one module, two of them in the other
TestInfos ==
    {MkInfo(PushModule, test_push0, sfx) : sfx \in ParamSuffixes}
    \cup {MkInfo(ParisModule, test_push0, sfx) :
              sfx \in {<<"[", "a", "-", "b", "]">>, <<"[", "b", "]">>}}

OutputDirs == {<<<<"o", "u", "t">>>>, <<<<"s", "t", "d", "o", "u", "t">>>>}

BaseDumpDirs == {None, <<<<"d", "u", "m", "p">>>>}

\* what a FixtureConsumer's can_consume accepts
Consumers == {{"FixtureA", "FixtureA2"}}

(***************************************************************************)
(* The collector used from one thread                                      *)
(***************************************************************************)
InitConfig ==
    /\ flat_output \in BOOLEAN
    /\ single_fixture_per_file \in BOOLEAN
    /\ filler_path = FillerPath

InitCollector ==
    /\ all_fixtures = <<>>
    /\ json_path_to_test_item = <<>>
    /\ calls = <<>>
    /\ op = "init"
    /\ written = [dirs |-> {}, files |-> <<>>]
    /\ stdout = <<>>
    /\ error = NoError
    /\ consumed = <<>>
    /\ consumer = {}

Init ==
    /\ InitConfig
    /\ output_dir \in OutputDirs
    /\ base_dump_dir \in BaseDumpDirs
    /\ InitCollector
    /\ pc = <<>>
    /\ local = <<>>
    /\ pure_in = <<>>
    /\ pure_out = <<>>

AddFixture ==
    /\ Len(calls) < MaxAdds
    /\ \E info \in TestInfos, cls \in FixtureClasses :
        LET fixture == [cls |-> cls, obj |-> Len(calls) + 1]
            r == add_fixture(flat_output, single_fixture_per_file, output_dir,
                             filler_path, all_fixtures, json_path_to_test_item,
                             info, fixture)
        IN  /\ all_fixtures' = r.all_fixtures
            /\ json_path_to_test_item' = r.items
            /\ calls' = Append(calls, [info |-> info, fixture |-> fixture,
                                       ok |-> r.ok, ret |-> r.val])
            /\ error' = IF r.ok THEN NoError ELSE r.val
    /\ op' = "add_fixture"
    /\ written' = [dirs |-> {}, files |-> <<>>]
    /\ stdout' = <<>>
    /\ consumed' = <<>>
    /\ consumer' = {}
    /\ UNCHANGED <<config, pc, local, pure_in, pure_out>>

DumpFixtures ==
    /\ LET r == dump_fixtures(output_dir, all_fixtures)
       IN  /\ written' = [dirs |-> r.dirs, files |-> r.files]
           /\ stdout' = r.stdout
           /\ error' = r.error
    /\ op' = "dump_fixtures"
    /\ consumed' = <<>>
    /\ consumer' = {}
    /\ UNCHANGED <<config, all_fixtures, json_path_to_test_item, calls, pc, local,
                   pure_in, pure_out>>

VerifyFixtureFiles ==
    /\ \E can_consume \in Consumers :
        LET r == verify_fixture_files(single_fixture_per_file, base_dump_dir,
                                      filler_path, all_fixtures,
                                      json_path_to_test_item, can_consume)
        IN  /\ consumed' = r.consumed
            /\ error' = r.error
            /\ consumer' = can_consume
    /\ op' = "verify_fixture_files"
    /\ written' = [dirs |-> {}, files |-> <<>>]
    /\ stdout' = <<>>
    /\ UNCHANGED <<config, all_fixtures, json_path_to_test_item, calls, pc, local,
                   pure_in, pure_out>>

Next == AddFixture \/ DumpFixtures \/ VerifyFixtureFiles

Spec == Init /\ [][Next]_vars

(***************************************************************************)
(* add_fixture called from several threads: one step per statement         *)
(***************************************************************************)
NThreads == 2

Threads == 1 .. NThreads

InitConc ==
    /\ InitConfig
    /\ output_dir = <<<<"o", "u", "t">>>>
    /\ base_dump_dir = None
    /\ InitCollector
    /\ pc = [t \in Threads |-> "L127"]
    /\ local \in [Threads -> [info : TestInfos, cls : FixtureClasses]]
    /\ pure_in = <<>>
    /\ pure_out = <<>>

ThreadFixture(t) == [cls |-> local[t].cls, obj |-> t]

ThreadBasename(t) ==
    get_fixture_basename(flat_output, single_fixture_per_file, filler_path,
                         local[t].info)

ThreadPath(t) == fixture_path_of(output_dir, ThreadFixture(t), ThreadBasename(t).val)

\* a statement of one thread: it moves on, and touches nothing but the two maps
Goto(t, label) ==
    /\ pc' = [pc EXCEPT ![t] = label]
    /\ UNCHANGED <<config, calls, op, written, stdout, error, consumed, consumer,
                   local, pure_in, pure_out>>

\* lines 127-133: the basename and the path, or the exception
T_path(t) ==
    /\ pc[t] = "L127"
    /\ Goto(t, IF ThreadBasename(t).ok THEN "L134" ELSE "raised")
    /\ UNCHANGED <<all_fixtures, json_path_to_test_item>>

\* line 134: the membership test
T_check(t) ==
    /\ pc[t] = "L134"
    /\ Goto(t, IF DictHas(all_fixtures, ThreadPath(t)) THEN "L138" ELSE "L135")
    /\ UNCHANGED <<all_fixtures, json_path_to_test_item>>

\* line 135
T_create(t) ==
    /\ pc[t] = "L135"
    /\ all_fixtures' = DictSet(all_fixtures, ThreadPath(t), <<>>)
    /\ Goto(t, "L136")
    /\ UNCHANGED json_path_to_test_item

\* line 136
T_record(t) ==
    /\ pc[t] = "L136"
    /\ json_path_to_test_item' =
           DictSet(json_path_to_test_item, ThreadPath(t), local[t].info)
    /\ Goto(t, "L138")
    /\ UNCHANGED all_fixtures

\* line 138
T_insert(t) ==
    /\ pc[t] = "L138"
    /\ all_fixtures' =
           DictSet(all_fixtures, ThreadPath(t),
                   DictSet(DictGet(all_fixtures, ThreadPath(t)),
                           local[t].info.id, ThreadFixture(t)))
    /\ Goto(t, "done")
    /\ UNCHANGED json_path_to_test_item

NextConc ==
    \E t \in Threads :
        \/ T_path(t)
        \/ T_check(t)
        \/ T_create(t)
        \/ T_record(t)
        \/ T_insert(t)

SpecConc == InitConc /\ [][NextConc]_vars

(***************************************************************************)
(* The naming functions on their own: the input is drawn in the initial    *)
(* state, a step applies the function to it.                               *)
(***************************************************************************)
MaxPieces == 3

MaxParamLen == 2

RECURSIVE Concat(_)
Concat(parts) == IF parts = <<>> THEN <<>> ELSE Head(parts) \o Concat(Tail(parts))

SeqsUpTo(S, n) == UNION {[1 .. k -> S] : k \in 0 .. n}

\* names with and without the prefix, possibly repeated or inside the name
NamePieces == {test_prefix, <<"t">>, <<"f">>, <<"_">>}

StripInputs == {Concat(ps) : ps \in SeqsUpTo(NamePieces, MaxPieces)}

\* the text between the brackets of Item.name
ParamChars == {"a", "-", "_", "["}

ParamStrings == SeqsUpTo(ParamChars, MaxParamLen) \ {<<>>}

Bracketed(params) == <<"[">> \o params \o <<"]">>

test_f == <<"t", "e", "s", "t", "_", "f">>

\* two parameterizations of one test function of one module
NamePairs ==
    {[a |-> MkInfo(PushModule, test_f, Bracketed(p)),
      b |-> MkInfo(PushModule, test_f, Bracketed(q))] : p, q \in ParamStrings}

\* one parameterized name, the parameters possibly holding a bracket
NameInputs == {MkInfo(PushModule, test_f, Bracketed(p)) : p \in ParamStrings}

InitPure ==
    /\ InitConfig
    /\ output_dir = <<<<"o", "u", "t">>>>
    /\ base_dump_dir = None
    /\ InitCollector
    /\ pc = <<>>
    /\ local = <<>>
    /\ \/ pure_in \in [kind : {"strip"}, s : StripInputs]
       \/ pure_in \in [kind : {"names"}, pair : NamePairs]
       \/ pure_in \in [kind : {"name"}, info : NameInputs]
    /\ pure_out = [done |-> FALSE]

PureFrame ==
    UNCHANGED <<config, all_fixtures, json_path_to_test_item, calls, op, written,
                stdout, error, consumed, consumer, pc, local, pure_in>>

\* strip_test_prefix applied once and applied to its own result
StripPrefix ==
    /\ pure_in.kind = "strip"
    /\ ~pure_out.done
    /\ pure_out' = [done |-> TRUE,
                    once |-> strip_test_prefix(pure_in.s),
                    twice |-> strip_test_prefix(strip_test_prefix(pure_in.s))]
    /\ PureFrame

\* get_fixture_basename of both TestInfo under the collector's configuration
Basenames ==
    /\ pure_in.kind = "names"
    /\ ~pure_out.done
    /\ pure_out' = [done |-> TRUE,
                    a |-> get_fixture_basename(flat_output, single_fixture_per_file,
                                               filler_path, pure_in.pair.a),
                    b |-> get_fixture_basename(flat_output, single_fixture_per_file,
                                               filler_path, pure_in.pair.b)]
    /\ PureFrame

\* get_name_and_parameters of one TestInfo
NameAndParameters ==
    /\ pure_in.kind = "name"
    /\ ~pure_out.done
    /\ pure_out' = [done |-> TRUE, np |-> get_name_and_parameters(pure_in.info)]
    /\ PureFrame

NextPure == StripPrefix \/ Basenames \/ NameAndParameters

SpecPure == InitPure /\ [][NextPure]_vars

(***************************************************************************)
(* Claims about the naming functions                                       *)
(***************************************************************************)
StripDone == pure_out.done /\ pure_in.kind = "strip"

NamesDone == pure_out.done /\ pure_in.kind = "names"

\* C2: with single_fixture_per_file=true, two TestInfo of one function and
\* module whose names differ in the parameter suffix get distinct basenames
\* (where both have one), also when the suffixes differ only in '-' and '_'.
C2_DistinctBasenames ==
    (/\ NamesDone
     /\ single_fixture_per_file
     /\ pure_in.pair.a.name # pure_in.pair.b.name
     /\ pure_out.a.ok
     /\ pure_out.b.ok) => pure_out.a.val # pure_out.b.val

\* C10 as stated: strip_test_prefix applied twice equals applying it once,
\* for every string.
C10_Idempotent == StripDone => pure_out.twice = pure_out.once

\* C10 amended: strip_test_prefix removes exactly one leading "test_" and
\* returns a string without that prefix unchanged; applying it twice equals
\* applying it once exactly when the first result does not start with "test_".
C10_StripsOnePrefix ==
    StripDone =>
        /\ ~StartsWith(pure_in.s, test_prefix) => pure_out.once = pure_in.s
        /\ StartsWith(pure_in.s, test_prefix) => test_prefix \o pure_out.once = pure_in.s
        /\ (pure_out.twice = pure_out.once) <=> ~StartsWith(pure_out.once, test_prefix)

\* a name with the prefix twice has been stripped once and twice
C10_Witness ==
    /\ StripDone
    /\ StartsWith(pure_out.once, test_prefix)
    /\ pure_out.twice # pure_out.once

(***************************************************************************)
(* Claims about concurrent add_fixture calls                               *)
(***************************************************************************)
AllThreadsDone == \A t \in Threads : pc[t] = "done"

DistinctThreadIds == \A t, u \in Threads : t # u => local[t].info.id # local[u].info.id

ThreadFixtureKept(t) ==
    /\ DictHas(all_fixtures, ThreadPath(t))
    /\ DictHas(DictGet(all_fixtures, ThreadPath(t)), local[t].info.id)
    /\ DictGet(DictGet(all_fixtures, ThreadPath(t)), local[t].info.id) = ThreadFixture(t)

\* C7: in any interleaving of add_fixture calls with distinct ids, once every
\* call has returned all_fixtures holds every added fixture: no call loses a
\* fixture by replacing a group that another call created.
C7_NoFixtureLost ==
    (AllThreadsDone /\ DistinctThreadIds) => \A t \in Threads : ThreadFixtureKept(t)

(***************************************************************************)
(* Claims about the collector                                              *)
(***************************************************************************)
Range(f) == {f[i] : i \in DOMAIN f}

HasBracket(name) == "[" \in Range(name)

Basename(info) ==
    get_fixture_basename(flat_output, single_fixture_per_file, filler_path, info)

Stored(path, id) ==
    /\ DictHas(all_fixtures, path)
    /\ DictHas(DictGet(all_fixtures, path), id)

\* two calls for the same function of the same module with a fixture of the
\* same class
SameFunction(c, d) ==
    /\ c.info.original_name = d.info.original_name
    /\ c.info.path = d.info.path
    /\ c.fixture.cls = d.fixture.cls

\* C1: with single_fixture_per_file=false, flat or hierarchical, TestInfo that
\* share original_name and path and differ in the parameter suffix of name get
\* the same basename, and add_fixture of fixtures of one class returns the same
\* path for them and keeps both in the group of that path.
C1_SameFileForEveryParameter ==
    ~single_fixture_per_file =>
        \A i, j \in DOMAIN calls :
            SameFunction(calls[i], calls[j]) =>
                /\ Basename(calls[i].info).ok
                /\ Basename(calls[i].info) = Basename(calls[j].info)
                /\ calls[i].ok /\ calls[j].ok
                /\ calls[i].ret = calls[j].ret
                /\ Stored(calls[i].ret, calls[i].info.id)
                /\ Stored(calls[i].ret, calls[j].info.id)

C1_Witness ==
    /\ ~single_fixture_per_file
    /\ \E i, j \in DOMAIN calls :
        /\ SameFunction(calls[i], calls[j])
        /\ calls[i].info.name # calls[j].info.name
        /\ HasBracket(calls[i].info.name) /\ HasBracket(calls[j].info.name)
        /\ Len(DictGet(all_fixtures, calls[i].ret)) = 2

AllCallsOk == \A i \in DOMAIN calls : calls[i].ok

DistinctIds == \A i, j \in DOMAIN calls : i # j => calls[i].info.id # calls[j].info.id

SameBasename == \A i, j \in DOMAIN calls : Basename(calls[i].info) = Basename(calls[j].info)

SameOutputPlace ==
    \A i, j \in DOMAIN calls :
        /\ output_base_dir_name(calls[i].fixture.cls)
               = output_base_dir_name(calls[j].fixture.cls)
        /\ output_file_extension(calls[i].fixture.cls)
               = output_file_extension(calls[j].fixture.cls)

OneGroupOfAll == Len(all_fixtures) = 1 /\ Len(all_fixtures[1].v) = Len(calls)

\* C3 as stated: from an empty collector, N add_fixture calls with pairwise
\* distinct ids and the same basename give exactly one group, of N entries.
C3_OneGroupPerBasename ==
    (calls # <<>> /\ AllCallsOk /\ DistinctIds /\ SameBasename) => OneGroupOfAll

\* C3 amended: ... and fixtures whose classes give the same output
\* subdirectory and extension (the same output path) give exactly one group,
\* of N entries.
C3_OneGroupPerPath ==
    (calls # <<>> /\ AllCallsOk /\ DistinctIds /\ SameBasename /\ SameOutputPlace)
        => OneGroupOfAll

C3_Witness ==
    /\ Len(calls) = MaxAdds
    /\ AllCallsOk /\ DistinctIds /\ SameBasename /\ SameOutputPlace
    /\ Len(all_fixtures[1].v) = MaxAdds

push0 == <<"p", "u", "s", "h", "0">>

push0_json == push0 \o <<".", "j", "s", "o", "n">>

Hierarchical == ~flat_output /\ ~single_fixture_per_file

IsPushCall(c) == c.info.path = PushModule /\ c.info.original_name = test_push0

\* C6 as stated: in hierarchical mode with single_fixture_per_file=false the
\* module /tests/shanghai/eip3855_push0/test_push0.py with filler_path /tests
\* and original_name test_push0 gives
\* <output_dir>/<subdir>/shanghai/eip3855_push0/test_push0/push0.<ext>.
C6_ModuleStemKept ==
    Hierarchical =>
        \A i \in DOMAIN calls :
            IsPushCall(calls[i]) =>
                calls[i].ret = output_dir
                    \o <<output_base_dir_name(calls[i].fixture.cls)>>
                    \o <<PushModule[3], PushModule[4], test_push0, push0_json>>

\* C6 amended: the directory mirrors the module path relative to filler_path
\* with the "test_" prefix stripped from the module's file stem too: the path
\* is <output_dir>/<subdir>/shanghai/eip3855_push0/push0/push0.<ext>.
C6_ModuleStemStripped ==
    Hierarchical =>
        \A i \in DOMAIN calls :
            /\ IsPushCall(calls[i]) =>
                calls[i].ret = output_dir
                    \o <<output_base_dir_name(calls[i].fixture.cls)>>
                    \o <<PushModule[3], PushModule[4], push0, push0_json>>
            /\ calls[i].info.path = ParisModule =>
                calls[i].ret = output_dir
                    \o <<output_base_dir_name(calls[i].fixture.cls)>>
                    \o <<ParisModule[3], push0, push0_json>>

C6_Witness ==
    /\ Hierarchical
    /\ \E i \in DOMAIN calls : IsPushCall(calls[i]) /\ Stored(calls[i].ret, calls[i].info.id)

LastCall == calls'[Len(calls')]

\* C9 as stated: in every configuration, add_fixture with a name without '['
\* fails; it never accepts the fixture.
C9_UnparameterizedRejected ==
    \A i \in DOMAIN calls : ~HasBracket(calls[i].info.name) => ~calls[i].ok

\* C9 amended: with single_fixture_per_file=true (flat or hierarchical)
\* add_fixture with a name without '[' fails with a ValueError and leaves
\* all_fixtures and json_path_to_test_item unchanged; with
\* single_fixture_per_file=false the name is not parsed and the fixture is
\* accepted under the basename of original_name.
C9_RejectedWhenSingle ==
    [][(calls' # calls /\ ~HasBracket(LastCall.info.name)) =>
          IF single_fixture_per_file
          THEN /\ ~LastCall.ok
               /\ LastCall.ret = "ValueError"
               /\ error' = "ValueError"
               /\ all_fixtures' = all_fixtures
               /\ json_path_to_test_item' = json_path_to_test_item
          ELSE /\ LastCall.ok
               /\ DictHas(all_fixtures', LastCall.ret)
               /\ DictHas(DictGet(all_fixtures', LastCall.ret), LastCall.info.id)
               /\ PathStem(LastCall.ret) = strip_test_prefix(LastCall.info.original_name)
      ]_vars

C9_Witness ==
    /\ single_fixture_per_file
    /\ Len(calls) = 2
    /\ calls[1].ok
    /\ ~HasBracket(calls[2].info.name)
    /\ ~calls[2].ok
    /\ Len(all_fixtures) = 1

StdoutMode == PathName(output_dir) = <<"s", "t", "d", "o", "u", "t">>

Dumped == op = "dump_fixtures"

MixedGroup(g) == Cardinality(GroupClasses(g.v)) >= 2

\* the groups dump_fixtures passes before the first group of mixed classes
UniformPrefix ==
    {i \in DOMAIN all_fixtures : \A j \in 1 .. i : ~MixedGroup(all_fixtures[j])}

\* C4: dump_fixtures, not in stdout mode, ends with a TypeError at the first
\* group that holds fixtures of two or more classes and writes no file at the
\* path of such a group; the groups before it are written.
C4_MixedGroupNotWritten ==
    (Dumped /\ ~StdoutMode) =>
        /\ (\E g \in Range(all_fixtures) : MixedGroup(g)) <=> error = "TypeError"
        /\ \A g \in Range(all_fixtures) : MixedGroup(g) => ~DictHas(written.files, g.k)
        /\ written.files = [i \in UniformPrefix |-> all_fixtures[i]]
        /\ stdout = <<>>

C4_Witness ==
    /\ Dumped /\ ~StdoutMode
    /\ error = "TypeError"
    /\ \E g \in Range(all_fixtures) : MixedGroup(g) /\ PathParent(g.k) \in written.dirs

RECURSIVE SumLen(_)
SumLen(groups) ==
    IF groups = <<>> THEN 0 ELSE Len(Head(groups).v) + SumLen(Tail(groups))

AllIds == UNION {DictKeys(g.v) : g \in Range(all_fixtures)}

\* the last group, in insertion order, that holds the id
LastGroupWith(id) ==
    all_fixtures[CHOOSE i \in DOMAIN all_fixtures :
                    /\ DictHas(all_fixtures[i].v, id)
                    /\ \A j \in DOMAIN all_fixtures :
                           DictHas(all_fixtures[j].v, id) => j <= i]

IdsInOneGroupOnly ==
    \A i, j \in DOMAIN all_fixtures :
        i # j => DictKeys(all_fixtures[i].v) \cap DictKeys(all_fixtures[j].v) = {}

OneDocumentNoFiles ==
    /\ Len(stdout) = 1
    /\ written.files = <<>>
    /\ written.dirs = {}
    /\ error = NoError

\* C5 as stated: in stdout mode dump_fixtures writes one JSON object and no
\* files, and the number of its top-level keys is the number of fixtures
\* summed over all groups, in every reachable collector state.
C5_OneKeyPerFixture ==
    (Dumped /\ StdoutMode) =>
        /\ OneDocumentNoFiles
        /\ Len(stdout[1]) = SumLen(all_fixtures)

\* C5 amended: ... the object's keys are the ids that occur in any group, one
\* key per distinct id, the value being the fixture of the last group that
\* holds the id; the number of keys is the number of fixtures summed over all
\* groups when no id occurs in two groups.
C5_OneKeyPerId ==
    (Dumped /\ StdoutMode) =>
        /\ OneDocumentNoFiles
        /\ DictKeys(stdout[1]) = AllIds
        /\ Len(stdout[1]) = Cardinality(AllIds)
        /\ \A id \in AllIds : DictGet(stdout[1], id) = DictGet(LastGroupWith(id).v, id)
        /\ IdsInOneGroupOnly => Len(stdout[1]) = SumLen(all_fixtures)

C5_Witness ==
    /\ Dumped /\ StdoutMode
    /\ Len(all_fixtures) = 2
    /\ ~IdsInOneGroupOnly
    /\ Len(stdout[1]) = 1

Verified == op = "verify_fixture_files"

Consumable(group) == {i \in DOMAIN group : group[i].v.cls \in consumer}

InvocationsFor(path) == {i \in DOMAIN consumed : consumed[i].fixture_path = path}

WholeFileInvocations ==
    \A i \in DOMAIN consumed :
        consumed[i].fixture_name = None /\ consumed[i].cls \in consumer

\* C8 as stated: verify_fixture_files invokes consume_fixture once per
\* fixture file path: for a group of k >= 1 consumable fixtures the number of
\* invocations for the path is 1, each with fixture_name unset.
C8_OncePerPath ==
    (Verified /\ error = NoError) =>
        /\ WholeFileInvocations
        /\ \A g \in Range(all_fixtures) :
               Consumable(g.v) # {} => Cardinality(InvocationsFor(g.k)) = 1

\* the recorded TestInfo of the path cannot be split into name and parameters
DumpDirFails(path) ==
    /\ base_dump_dir # None
    /\ Cardinality({i \in DOMAIN DictGet(json_path_to_test_item, path).name :
                       DictGet(json_path_to_test_item, path).name[i] = "["}) # 1

FailingGroups ==
    {g \in Range(all_fixtures) : Consumable(g.v) # {} /\ DumpDirFails(g.k)}

\* C8 amended: verify_fixture_files invokes consume_fixture once per
\* consumable fixture: for a group of k consumable fixtures the number of
\* invocations for the path is k, each with fixture_name unset.  (When
\* base_dump_dir is set and the TestInfo recorded for such a path has a name
\* without exactly one '[', verification ends there with a ValueError and the
\* path gets no invocation.)
C8_OncePerFixture ==
    Verified =>
        /\ WholeFileInvocations
        /\ error = (IF FailingGroups = {} THEN NoError ELSE "ValueError")
        /\ \A g \in Range(all_fixtures) :
               /\ Cardinality(InvocationsFor(g.k)) <= Cardinality(Consumable(g.v))
               /\ error = NoError =>
                      Cardinality(InvocationsFor(g.k)) = Cardinality(Consumable(g.v))
               /\ g \in FailingGroups => InvocationsFor(g.k) = {}

C8_Witness ==
    /\ Verified /\ error = NoError
    /\ \E g \in Range(all_fixtures) :
        /\ Cardinality(Consumable(g.v)) = 2
        /\ Cardinality(InvocationsFor(g.k)) = 2

(***************************************************************************)
(* Claims about accumulation                                               *)
(***************************************************************************)
GroupIds(fx, path) == DictKeys(DictGet(fx, path))

\* C11: across add_fixture, dump_fixtures and verify_fixture_files calls the
\* set of paths of all_fixtures (and of json_path_to_test_item) and the set of
\* ids of each group never shrink, and dump_fixtures and verify_fixture_files
\* leave both maps unchanged.
C11_MonotonicAccumulation ==
    [][/\ DictKeys(all_fixtures) \subseteq DictKeys(all_fixtures')
       /\ DictKeys(json_path_to_test_item) \subseteq DictKeys(json_path_to_test_item')
       /\ \A p \in DictKeys(all_fixtures) :
              GroupIds(all_fixtures, p) \subseteq GroupIds(all_fixtures', p)
       /\ op' \in {"dump_fixtures", "verify_fixture_files"} =>
              /\ all_fixtures' = all_fixtures
              /\ json_path_to_test_item' = json_path_to_test_item
      ]_vars

\* two fixtures were added to one group and the collector was dumped
C11_Witness ==
    /\ Dumped
    /\ \E g \in Range(all_fixtures) : Len(g.v) = 2

CallsTo(path) == {i \in DOMAIN calls : calls[i].ok /\ calls[i].ret = path}

FirstCallTo(path) ==
    calls[CHOOSE i \in CallsTo(path) : \A j \in CallsTo(path) : i <= j]

\* C12: for every output path json_path_to_test_item holds the TestInfo of
\* the first add_fixture call that produced the path; no later call to the
\* path, with the same or another id, changes it.
C12_FirstInfoKept ==
    /\ \A i \in DOMAIN calls : calls[i].ok => DictHas(json_path_to_test_item, calls[i].ret)
    /\ \A e \in Range(json_path_to_test_item) :
           /\ CallsTo(e.k) # {}
           /\ e.v = FirstCallTo(e.k).info

\* a second call with another TestInfo went to the path of the first
C12_Witness ==
    /\ Len(calls) = 2
    /\ calls[1].ok /\ calls[2].ok
    /\ calls[1].ret = calls[2].ret
    /\ calls[1].info # calls[2].info
    /\ DictGet(json_path_to_test_item, calls[2].ret) = calls[1].info

CallsToId(path, id) == {i \in CallsTo(path) : calls[i].info.id = id}

LastCallToId(path, id) ==
    calls[CHOOSE i \in CallsToId(path, id) : \A j \in CallsToId(path, id) : j <= i]

\* C13: adding a fixture under an id that its group already holds replaces the
\* entry: the group holds one entry per distinct id added to the path, each
\* being the fixture of the most recent call with that id, and the paths are
\* exactly the paths the calls produced.
C13_LastWriteWins ==
    /\ DictKeys(all_fixtures) = {calls[i].ret : i \in {j \in DOMAIN calls : calls[j].ok}}
    /\ \A g \in Range(all_fixtures) :
           /\ Len(g.v) = Cardinality({calls[i].info.id : i \in CallsTo(g.k)})
           /\ \A e \in Range(g.v) :
                  /\ CallsToId(g.k, e.k) # {}
                  /\ e.v = LastCallToId(g.k, e.k).fixture

\* the second call repeated the id and the path of the first
C13_Witness ==
    /\ Len(calls) = 2
    /\ calls[1].ok /\ calls[2].ok
    /\ calls[1].ret = calls[2].ret
    /\ calls[1].info.id = calls[2].info.id
    /\ calls[1].fixture # calls[2].fixture
    /\ Len(all_fixtures) = 1
    /\ Len(DictGet(all_fixtures, calls[2].ret)) = 1
    /\ DictGet(DictGet(all_fixtures, calls[2].ret), calls[2].info.id) = calls[2].fixture

(* Claims about the split of a name *)
NameDone == pure_out.done /\ pure_in.kind = "name"

FirstBracket(s) == CHOOSE i \in 1 .. Len(s) : s[i] = "[" /\ \A j \in 1 .. i - 1 : s[j] # "["

BeforeFirstBracket(s) == SubSeq(s, 1, FirstBracket(s) - 1)

AfterFirstBracket(s) == SubSeq(s, FirstBracket(s) + 1, Len(s))

\* C14: a name holding at least one '[' is split on its first '[' only: the
\* call returns, the test name is the text before the first '[' and the
\* parameter token is the rest with every '[' and '-' replaced by '_' and
\* every ']' removed, also when the parameters hold a second '['.
C14_SplitsOnFirstBracket ==
    NameDone =>
        /\ pure_out.np.ok
        /\ pure_out.np.val[1] = BeforeFirstBracket(pure_in.info.name)
        /\ pure_out.np.val[2] =
               MapChars(MapChars(AfterFirstBracket(pure_in.info.name), {"[", "-"}, <<"_">>),
                        {"]"}, <<>>)

(* Claims about the dump directory *)
FunctionDumpDir(info) == get_dump_dir_path(info, base_dump_dir, filler_path, "test_function")

OneBracket(info) == Cardinality({i \in DOMAIN info.name : info.name[i] = "["}) = 1

\* two calls whose fixtures went to one output path
SamePath(i, j) == calls[i].ok /\ calls[j].ok /\ calls[i].ret = calls[j].ret

FunctionLevel == ~single_fixture_per_file /\ base_dump_dir # None

\* C15 as stated: with single_fixture_per_file=false any two TestInfo whose
\* fixtures land on the same output path, flat or hierarchical, have the same
\* function-level dump directory.
C15_SameDumpDirOnSamePath ==
    FunctionLevel =>
        \A i, j \in DOMAIN calls :
            (SamePath(i, j) /\ OneBracket(calls[i].info) /\ OneBracket(calls[j].info)) =>
                FunctionDumpDir(calls[i].info).val = FunctionDumpDir(calls[j].info).val

\* C15 amended: with single_fixture_per_file=false two TestInfo of one module
\* and one function whose names hold exactly one '[' have the same
\* function-level dump directory, and the consumer gets that directory
\* whichever of them was added first.  TestInfo of different modules that the
\* flat layout puts on one path have different dump directories, and a
\* TestInfo whose name has no '[' has none (ValueError).
C15_SameDumpDirWithinModule ==
    FunctionLevel =>
        /\ \A i \in DOMAIN calls :
               FunctionDumpDir(calls[i].info).ok = OneBracket(calls[i].info)
        /\ \A i, j \in DOMAIN calls :
               (SamePath(i, j) /\ OneBracket(calls[i].info) /\ OneBracket(calls[j].info)) =>
                   /\ (FunctionDumpDir(calls[i].info).val = FunctionDumpDir(calls[j].info).val)
                          = (calls[i].info.path = calls[j].info.path)
                   /\ calls[i].info.path # calls[j].info.path => flat_output
        /\ (Verified /\ error = NoError) =>
               \A c \in Range(consumed) : \A i \in CallsTo(c.fixture_path) :
                   (/\ OneBracket(calls[i].info)
                    /\ calls[i].info.path = FirstCallTo(c.fixture_path).info.path) =>
                       c.debug_output_path = FunctionDumpDir(calls[i].info).val

\* two parameterizations of one function were added to one path, the second
\* one first, and the consumer got the directory of the function
C15_Witness ==
    /\ Verified /\ error = NoError /\ FunctionLevel
    /\ Len(calls) = 2 /\ SamePath(1, 2)
    /\ calls[1].info.path = calls[2].info.path
    /\ calls[1].info.name # calls[2].info.name
    /\ Len(consumed) = 2
    /\ consumed[1].debug_output_path = FunctionDumpDir(calls[2].info).val

(* Claims about fixture types *)
SamePlaceForType(c, d) ==
    /\ output_base_dir_name(c) = output_base_dir_name(d)
    /\ output_file_extension(c) = output_file_extension(d)

\* C16 as stated: fixtures of two different concrete types never share an
\* output path, and so never a group.
C16_NoPathSharedByTypes ==
    \A g \in Range(all_fixtures) : \A e, f \in Range(g.v) : e.v.cls = f.v.cls

\* C16 amended: fixtures of two types with different output subdirectories
\* never share an output path, even when their TestInfo give the same
\* basename; fixtures of two types with the same subdirectory and extension
\* and the same basename share the path and the group.
C16_NoPathSharedAcrossSubdirs ==
    /\ \A g \in Range(all_fixtures) : \A e, f \in Range(g.v) :
           output_base_dir_name(e.v.cls) = output_base_dir_name(f.v.cls)
    /\ \A i, j \in DOMAIN calls :
           (calls[i].ok /\ calls[j].ok /\ Basename(calls[i].info) = Basename(calls[j].info)) =>
               (calls[i].ret = calls[j].ret)
                   = SamePlaceForType(calls[i].fixture.cls, calls[j].fixture.cls)

\* one TestInfo was added with fixtures of two types of different
\* subdirectories: two paths, two groups
C16_Witness ==
    /\ Len(calls) = 2
    /\ calls[1].ok /\ calls[2].ok
    /\ calls[1].info = calls[2].info
    /\ calls[1].fixture.cls = "FixtureA" /\ calls[2].fixture.cls = "FixtureB"
    /\ Len(all_fixtures) = 2

(* Claims about the directory given to the consumer *)
\* the directory names expected for the modules and parameters of TestInfos
ExpectedFunctionDir(info) ==
    IF info.path = PushModule
    THEN <<"s", "h", "a", "n", "g", "h", "a", "i", "_", "_", "e", "i", "p", "3", "8", "5", "5", "_", "p", "u", "s", "h", "0", "_", "_", "t", "e", "s", "t", "_", "p", "u", "s", "h", "0", "_", "_", "t", "e", "s", "t", "_", "p", "u", "s", "h", "0">>
    ELSE <<"p", "a", "r", "i", "s", "_", "_", "t", "e", "s", "t", "_", "p", "u", "s", "h", "0", "_", "_", "t", "e", "s", "t", "_", "p", "u", "s", "h", "0">>

ExpectedParameterDir(info) ==
    IF info.name = test_push0 \o <<"[", "b", "]">> THEN <<"b">> ELSE <<"a", "_", "b">>

ExpectedDumpDir(info) ==
    IF base_dump_dir = None THEN None
    ELSE IF single_fixture_per_file
    THEN base_dump_dir \o <<ExpectedFunctionDir(info), ExpectedParameterDir(info)>>
    ELSE base_dump_dir \o <<ExpectedFunctionDir(info)>>

\* C17: the directory verify_fixture_files passes to the consumer for a path
\* is that of the first TestInfo recorded for the path: base_dump_dir, the
\* directory of module and function and, when single_fixture_per_file is true,
\* below it the directory of the parameters; it is absent when base_dump_dir
\* is unset.
C17_DumpDirOfFirstTestInfo ==
    Verified =>
        \A c \in Range(consumed) :
            /\ base_dump_dir # None => OneBracket(FirstCallTo(c.fixture_path).info)
            /\ c.debug_output_path = ExpectedDumpDir(FirstCallTo(c.fixture_path).info)

\* with single_fixture_per_file=true, flat, a test of another module and other
\* parameters went to the path of the first, and the consumer got the
\* parameter-level directory of the first for both fixtures
C17_Witness ==
    /\ Verified /\ error = NoError
    /\ single_fixture_per_file /\ base_dump_dir # None
    /\ Len(calls) = 2 /\ SamePath(1, 2)
    /\ calls[1].info.path = ParisModule /\ calls[2].info.path = PushModule
    /\ Len(consumed) = 2
    /\ consumed[2].debug_output_path =
           base_dump_dir \o <<<<"p", "a", "r", "i", "s", "_", "_", "t", "e", "s", "t", "_", "p", "u", "s", "h", "0", "_", "_", "t", "e", "s", "t", "_", "p", "u", "s", "h", "0">>, <<"a", "_", "b">>>>

(* Claims about the two maps together *)
\* C18: all_fixtures and json_path_to_test_item have the same keys, every
\* group holds at least one fixture, and the id of the TestInfo recorded for a
\* path is a key of the path's group.
C18_MapsAgree ==
    /\ DictKeys(all_fixtures) = DictKeys(json_path_to_test_item)
    /\ Len(all_fixtures) = Len(json_path_to_test_item)
    /\ \A g \in Range(all_fixtures) :
           /\ g.v # <<>>
           /\ DictGet(json_path_to_test_item, g.k).id \in GroupIds(all_fixtures, g.k)

\* a path holds two fixtures, the second of a TestInfo other than the one
\* recorded, and the collector was verified
C18_Witness ==
    /\ Verified
    /\ Len(calls) = 2 /\ SamePath(1, 2)
    /\ calls[1].info.id # calls[2].info.id
    /\ Len(DictGet(all_fixtures, calls[1].ret)) = 2
    /\ DictGet(json_path_to_test_item, calls[1].ret).id = calls[1].info.id

(* Claims about single_fixture_per_file *)
\* C19: with single_fixture_per_file=true, after add_fixture calls whose
\* TestInfo have pairwise distinct ids, every group in all_fixtures holds
\* exactly one fixture, in flat and in hierarchical layout.
C19_OneFixturePerGroup ==
    (single_fixture_per_file /\ AllCallsOk /\ DistinctIds) =>
        \A g \in Range(all_fixtures) : Len(g.v) = 1
====
